---- MODULE Spec2Model ----
(***************************************************************************)
(* TechAI media tools: the usage-capped image generator                    *)
(* (tools/imagen_generate.py) and the Freepik search client                *)
(* (tools/freepik_client.py).                                              *)
(*                                                                         *)
(* A calendar month ("%Y-%m") is modelled as a month index 1, 2, ...; the  *)
(* code only ever compares months for equality.  The usage file is one of  *)
(* missing, present but not parseable as JSON ("corrupt"), or a record     *)
(* {month, count}.                                                         *)
(***************************************************************************)
EXTENDS Integers, Sequences, FiniteSets, TLC

\* ---------------------------------------------------------------- bounds
MaxCap == 3
MaxMonth == 3
MaxCalls == 4
NumProcs == 3
MaxLimit == 2
MaxPage == 2
MaxItems == 2

Procs == 1 .. NumProcs
Months == 1 .. MaxMonth
\* The process that runs the tool when invocations are sequential.
SeqProc == 1

VARIABLES
    file,           \* content of USAGE_FILE
    clock,          \* the calendar month datetime.now() falls in
    cap,            \* MONTHLY_CAP
    pc,             \* per process: the next step of generate_image
    usage,          \* per process: local `usage` of check_and_increment_usage
    current_month,  \* per process: local `current_month`
    loaded,         \* per process (history): what load_usage saw, and when
    gate,           \* per process: outcome of check_and_increment_usage
    called,         \* per process (history): the Vertex AI call was made
    outcome,        \* per process: how generate_image ended
    results,        \* history: gate results in order of return (TRUE = allowed)
    calls,          \* history: invocations started
    start,          \* history: the usage file and month at the start
    admittedIn,     \* history: admitted attempts per month
    generatedIn,    \* history: images saved per month
    fileB,          \* twin usage file (starts as {current month, 0})
    resultsB,       \* gate results against the twin file
    s_pc,           \* search_resources: next step
    s_args,         \* search_resources: params of the request
    response,       \* search_resources: local `response`
    s_return,       \* search_resources: returned value
    s_raised,       \* search_resources: exception that left the call
    s_diag          \* search_resources: diagnostics printed

genVars == <<file, clock, cap, pc, usage, current_month, loaded, gate, called,
             outcome, results, calls, start, admittedIn, generatedIn>>
twinVars == <<fileB, resultsB>>
searchVars == <<s_pc, s_args, response, s_return, s_raised, s_diag>>
vars == <<genVars, twinVars, searchVars>>

\* ------------------------------------------------------- usage file store
Missing == [kind |-> "missing", month |-> 0, count |-> 0]
Corrupt == [kind |-> "corrupt", month |-> 0, count |-> 0]
NoUsage == [month |-> 0, count |-> 0]

\* json.dump(usage, f): the file holds the record.
StoredRecord(u) == [kind |-> "record", month |-> u.month, count |-> u.count]

\* A load that swallows the parse failure and starts from zero.
load_usage_resets(f, now) ==
    IF f.kind = "record"
    THEN [raised |-> FALSE, usage |-> [month |-> f.month, count |-> f.count]]
    ELSE [raised |-> FALSE, usage |-> [month |-> now, count |-> 0]]

\* A default record that already counts one use.
load_usage_one(f, now) ==
    IF f.kind # "missing"
    THEN IF f.kind = "corrupt"
         THEN [raised |-> TRUE, usage |-> NoUsage]
         ELSE [raised |-> FALSE, usage |-> [month |-> f.month, count |-> f.count]]
    ELSE [raised |-> FALSE, usage |-> [month |-> now, count |-> 1]]

\* load_usage(): json.load raises on a file that is not JSON; a missing file
\* gives {month: now, count: 0}.
load_usage(f, now) ==
    IF f.kind # "missing"
    THEN IF f.kind = "corrupt"
         THEN [raised |-> TRUE, usage |-> NoUsage]
         ELSE [raised |-> FALSE, usage |-> [month |-> f.month, count |-> f.count]]
    ELSE [raised |-> FALSE, usage |-> [month |-> now, count |-> 0]]

\* A reset that moves to the new month but keeps the stale count.
ResetKeepsCount(u, cur) ==
    IF u.month # cur THEN [month |-> cur, count |-> u.count] ELSE u

\* A reset on every call, whatever the stored month.
ResetAlways(u, cur) == [month |-> cur, count |-> 0]

\* "Reset count if new month".
ResetIfNewMonth(u, cur) ==
    IF u.month # cur THEN [month |-> cur, count |-> 0] ELSE u

\* An off-by-one cap test.
CapReachedStrict(u, c) == u.count > c

\* usage["count"] >= MONTHLY_CAP
CapReached(u, c) == u.count >= c

\* An increment by two.
IncrementByTwo(u) == [u EXCEPT !.count = @ + 2]

\* usage["count"] += 1
Increment(u) == [u EXCEPT !.count = @ + 1]

\* check_and_increment_usage() run without interruption on file f, the clock
\* reading now1 inside load_usage and now2 for current_month.
check_and_increment_usage(f, now1, now2, c) ==
    LET l == load_usage(f, now1)
        u == ResetIfNewMonth(l.usage, now2)
    IN  IF l.raised
        THEN [file |-> f, result |-> "raised"]
        ELSE IF CapReached(u, c)
             THEN [file |-> f, result |-> "denied"]
             ELSE [file |-> StoredRecord(Increment(u)), result |-> "allowed"]

\* ------------------------------------------------------------------ Init
NoLoad == [file |-> Missing, at |-> 0]

GenInit ==
    /\ cap \in 1 .. MaxCap
    /\ clock \in Months
    /\ file \in {Missing, Corrupt}
                \cup {StoredRecord([month |-> m, count |-> c]) :
                         m \in 1 .. clock, c \in 0 .. cap}
    /\ pc = [p \in Procs |-> "idle"]
    /\ usage = [p \in Procs |-> NoUsage]
    /\ current_month = [p \in Procs |-> 0]
    /\ loaded = [p \in Procs |-> NoLoad]
    /\ gate = [p \in Procs |-> "pending"]
    /\ called = [p \in Procs |-> FALSE]
    /\ outcome = [p \in Procs |-> "none"]
    /\ results = <<>>
    /\ calls = 0
    /\ start = [file |-> file, clock |-> clock]
    /\ admittedIn = [m \in Months |->
                        IF file.kind = "record" /\ file.month = m
                        THEN file.count ELSE 0]
    /\ generatedIn = [m \in Months |-> 0]

TwinIdle ==
    /\ fileB = Missing
    /\ resultsB = <<>>

NoArgs == [term |-> "", limit |-> 0, page |-> 0]
Unbound == [bound |-> FALSE, status |-> 0, body |-> "none", items |-> 0]

SearchIdle ==
    /\ s_pc = "idle"
    /\ s_args = NoArgs
    /\ response = Unbound
    /\ s_return = <<>>
    /\ s_raised = "none"
    /\ s_diag = {}

Init == GenInit /\ TwinIdle /\ SearchIdle

\* ------------------------------------------------- generate_image, by step
\* python imagen_generate.py "<prompt>": generate_image is entered.
Start(p) ==
    /\ pc[p] = "idle"
    /\ calls < MaxCalls
    /\ calls' = calls + 1
    /\ pc' = [pc EXCEPT ![p] = "load"]
    /\ UNCHANGED <<twinVars, searchVars>>
    /\ UNCHANGED <<file, clock, cap, usage, current_month, loaded, gate, called,
                   outcome, results, start, admittedIn, generatedIn>>

\* usage = load_usage()
Load(p) ==
    /\ pc[p] = "load"
    /\ LET l == load_usage(file, clock)
       IN  /\ loaded' = [loaded EXCEPT ![p] = [file |-> file, at |-> clock]]
           /\ usage' = [usage EXCEPT ![p] = l.usage]
           /\ IF l.raised
              THEN /\ pc' = [pc EXCEPT ![p] = "done"]
                   /\ gate' = [gate EXCEPT ![p] = "raised"]
                   /\ outcome' = [outcome EXCEPT ![p] = "raised_json"]
              ELSE /\ pc' = [pc EXCEPT ![p] = "month"]
                   /\ UNCHANGED <<gate, outcome>>
    /\ UNCHANGED <<twinVars, searchVars>>
    /\ UNCHANGED <<file, clock, cap, current_month, called, results, calls,
                   start, admittedIn, generatedIn>>

\* current_month = datetime.now().strftime("%Y-%m"); reset if new month.
ReadMonth(p) ==
    /\ pc[p] = "month"
    /\ current_month' = [current_month EXCEPT ![p] = clock]
    /\ usage' = [usage EXCEPT ![p] = ResetIfNewMonth(usage[p], clock)]
    /\ pc' = [pc EXCEPT ![p] = "check"]
    /\ UNCHANGED <<twinVars, searchVars>>
    /\ UNCHANGED <<file, clock, cap, loaded, gate, called, outcome, results,
                   calls, start, admittedIn, generatedIn>>

\* A denied gate that lets generate_image carry on.
CapDeniedContinues(p) ==
    /\ pc[p] = "check"
    /\ CapReached(usage[p], cap)
    /\ gate' = [gate EXCEPT ![p] = "denied"]
    /\ results' = Append(results, FALSE)
    /\ pc' = [pc EXCEPT ![p] = "import"]
    /\ UNCHANGED <<twinVars, searchVars>>
    /\ UNCHANGED <<file, clock, cap, usage, current_month, loaded, called,
                   outcome, calls, start, admittedIn, generatedIn>>

\* count >= MONTHLY_CAP: return False, and generate_image does sys.exit(1).
CapDenied(p) ==
    /\ pc[p] = "check"
    /\ CapReached(usage[p], cap)
    /\ gate' = [gate EXCEPT ![p] = "denied"]
    /\ results' = Append(results, FALSE)
    /\ outcome' = [outcome EXCEPT ![p] = "exit_quota"]
    /\ pc' = [pc EXCEPT ![p] = "done"]
    /\ UNCHANGED <<twinVars, searchVars>>
    /\ UNCHANGED <<file, clock, cap, usage, current_month, loaded, called,
                   calls, start, admittedIn, generatedIn>>

\* usage["count"] += 1, then save_usage opens the file for writing, which
\* truncates it.
IncrementAndOpen(p) ==
    /\ pc[p] = "check"
    /\ ~CapReached(usage[p], cap)
    /\ usage' = [usage EXCEPT ![p] = Increment(usage[p])]
    /\ file' = Corrupt
    /\ pc' = [pc EXCEPT ![p] = "dump"]
    /\ UNCHANGED <<twinVars, searchVars>>
    /\ UNCHANGED <<clock, cap, current_month, loaded, gate, called, outcome,
                   results, calls, start, admittedIn, generatedIn>>

\* json.dump(usage, f); return True.
Dump(p) ==
    /\ pc[p] = "dump"
    /\ file' = StoredRecord(usage[p])
    /\ gate' = [gate EXCEPT ![p] = "allowed"]
    /\ results' = Append(results, TRUE)
    /\ admittedIn' = [admittedIn EXCEPT ![current_month[p]] = @ + 1]
    /\ pc' = [pc EXCEPT ![p] = "import"]
    /\ UNCHANGED <<twinVars, searchVars>>
    /\ UNCHANGED <<clock, cap, usage, current_month, loaded, called, outcome,
                   calls, start, generatedIn>>

\* import vertexai succeeds.
ImportOk(p) ==
    /\ pc[p] = "import"
    /\ pc' = [pc EXCEPT ![p] = "generate"]
    /\ UNCHANGED <<twinVars, searchVars>>
    /\ UNCHANGED <<file, clock, cap, usage, current_month, loaded, gate, called,
                   outcome, results, calls, start, admittedIn, generatedIn>>

\* ImportError: diagnostic and sys.exit(1).
ImportMissing(p) ==
    /\ pc[p] = "import"
    /\ outcome' = [outcome EXCEPT ![p] = "exit_dependency"]
    /\ pc' = [pc EXCEPT ![p] = "done"]
    /\ UNCHANGED <<twinVars, searchVars>>
    /\ UNCHANGED <<file, clock, cap, usage, current_month, loaded, gate, called,
                   results, calls, start, admittedIn, generatedIn>>

\* vertexai.init, from_pretrained, generate_images return an image.
GenerateOk(p) ==
    /\ pc[p] = "generate"
    /\ called' = [called EXCEPT ![p] = TRUE]
    /\ pc' = [pc EXCEPT ![p] = "save_image"]
    /\ UNCHANGED <<twinVars, searchVars>>
    /\ UNCHANGED <<file, clock, cap, usage, current_month, loaded, gate, outcome,
                   results, calls, start, admittedIn, generatedIn>>

\* A failed call that gives the reserved unit back.
GenerateFailsRollback(p) ==
    /\ pc[p] = "generate"
    /\ called' = [called EXCEPT ![p] = TRUE]
    /\ outcome' = [outcome EXCEPT ![p] = "raised_generate"]
    /\ file' = StoredRecord([usage[p] EXCEPT !.count = @ - 1])
    /\ pc' = [pc EXCEPT ![p] = "done"]
    /\ UNCHANGED <<twinVars, searchVars>>
    /\ UNCHANGED <<clock, cap, usage, current_month, loaded, gate, results,
                   calls, start, admittedIn, generatedIn>>

\* The external call raises; nothing in generate_image catches it.
GenerateFails(p) ==
    /\ pc[p] = "generate"
    /\ called' = [called EXCEPT ![p] = TRUE]
    /\ outcome' = [outcome EXCEPT ![p] = "raised_generate"]
    /\ pc' = [pc EXCEPT ![p] = "done"]
    /\ UNCHANGED <<twinVars, searchVars>>
    /\ UNCHANGED <<file, clock, cap, usage, current_month, loaded, gate, results,
                   calls, start, admittedIn, generatedIn>>

\* images[0].save(output_path); return output_path.
SaveImageOk(p) ==
    /\ pc[p] = "save_image"
    /\ outcome' = [outcome EXCEPT ![p] = "ok"]
    /\ generatedIn' = [generatedIn EXCEPT ![current_month[p]] = @ + 1]
    /\ pc' = [pc EXCEPT ![p] = "done"]
    /\ UNCHANGED <<twinVars, searchVars>>
    /\ UNCHANGED <<file, clock, cap, usage, current_month, loaded, gate, called,
                   results, calls, start, admittedIn>>

\* images[0].save raises (unwritable path); nothing catches it.
SaveImageFails(p) ==
    /\ pc[p] = "save_image"
    /\ outcome' = [outcome EXCEPT ![p] = "raised_save"]
    /\ pc' = [pc EXCEPT ![p] = "done"]
    /\ UNCHANGED <<twinVars, searchVars>>
    /\ UNCHANGED <<file, clock, cap, usage, current_month, loaded, gate, called,
                   results, calls, start, admittedIn, generatedIn>>

\* The process ends; the next invocation starts from fresh locals.
Exit(p) ==
    /\ pc[p] = "done"
    /\ pc' = [pc EXCEPT ![p] = "idle"]
    /\ usage' = [usage EXCEPT ![p] = NoUsage]
    /\ current_month' = [current_month EXCEPT ![p] = 0]
    /\ loaded' = [loaded EXCEPT ![p] = NoLoad]
    /\ gate' = [gate EXCEPT ![p] = "pending"]
    /\ called' = [called EXCEPT ![p] = FALSE]
    /\ outcome' = [outcome EXCEPT ![p] = "none"]
    /\ UNCHANGED <<twinVars, searchVars>>
    /\ UNCHANGED <<file, clock, cap, results, calls, start, admittedIn,
                   generatedIn>>

\* The calendar moves on to the next month.
Tick ==
    /\ clock < MaxMonth
    /\ clock' = clock + 1
    /\ UNCHANGED <<twinVars, searchVars>>
    /\ UNCHANGED <<file, cap, pc, usage, current_month, loaded, gate, called,
                   outcome, results, calls, start, admittedIn, generatedIn>>

\* Sequential use: one invocation at a time, any number of months.
Next ==
    \/ Start(SeqProc)
    \/ Load(SeqProc)
    \/ ReadMonth(SeqProc)
    \/ CapDenied(SeqProc)
    \/ IncrementAndOpen(SeqProc)
    \/ Dump(SeqProc)
    \/ ImportOk(SeqProc)
    \/ ImportMissing(SeqProc)
    \/ GenerateOk(SeqProc)
    \/ GenerateFails(SeqProc)
    \/ SaveImageOk(SeqProc)
    \/ SaveImageFails(SeqProc)
    \/ Exit(SeqProc)
    \/ Tick

Spec == Init /\ [][Next]_vars

\* ------------------------------------------------ concurrent invocations
\* One of several processes started at the same time enters generate_image.
Launch(p) ==
    /\ pc[p] = "idle"
    /\ calls' = calls + 1
    /\ pc' = [pc EXCEPT ![p] = "load"]
    /\ UNCHANGED <<twinVars, searchVars>>
    /\ UNCHANGED <<file, clock, cap, usage, current_month, loaded, gate, called,
                   outcome, results, start, admittedIn, generatedIn>>

\* Each process runs check_and_increment_usage once, steps interleaved, no
\* lock.  The race is taken within one calendar month, the unit the quota is
\* counted in, so the clock does not tick here.
NextConc ==
    \E p \in Procs :
        \/ Launch(p)
        \/ Load(p)
        \/ ReadMonth(p)
        \/ CapDenied(p)
        \/ IncrementAndOpen(p)
        \/ Dump(p)

SpecConc == Init /\ [][NextConc]_vars

\* ------------------------------------------- missing file against {now, 0}
GenIdle ==
    /\ pc = [p \in Procs |-> "idle"]
    /\ usage = [p \in Procs |-> NoUsage]
    /\ current_month = [p \in Procs |-> 0]
    /\ loaded = [p \in Procs |-> NoLoad]
    /\ gate = [p \in Procs |-> "pending"]
    /\ called = [p \in Procs |-> FALSE]
    /\ outcome = [p \in Procs |-> "none"]
    /\ results = <<>>
    /\ calls = 0
    /\ start = [file |-> file, clock |-> clock]
    /\ admittedIn = [m \in Months |-> 0]
    /\ generatedIn = [m \in Months |-> 0]

InitTwin ==
    /\ cap \in 1 .. MaxCap
    /\ clock \in Months
    /\ file = Missing
    /\ fileB = StoredRecord([month |-> clock, count |-> 0])
    /\ resultsB = <<>>
    /\ GenIdle
    /\ SearchIdle

\* The same call of check_and_increment_usage on both files; the month may
\* turn between the clock reading of load_usage and that of current_month.
TwinCall ==
    /\ calls < MaxCalls
    /\ \E now2 \in {clock, clock + 1} \cap Months :
           LET a == check_and_increment_usage(file, clock, now2, cap)
               b == check_and_increment_usage(fileB, clock, now2, cap)
           IN  /\ file' = a.file
               /\ fileB' = b.file
               /\ results' = Append(results, a.result = "allowed")
               /\ resultsB' = Append(resultsB, b.result = "allowed")
               /\ clock' = now2
    /\ calls' = calls + 1
    /\ UNCHANGED searchVars
    /\ UNCHANGED <<cap, pc, usage, current_month, loaded, gate, called, outcome,
                   start, admittedIn, generatedIn>>

TwinTick ==
    /\ clock < MaxMonth
    /\ clock' = clock + 1
    /\ UNCHANGED <<twinVars, searchVars>>
    /\ UNCHANGED <<file, cap, pc, usage, current_month, loaded, gate, called,
                   outcome, results, calls, start, admittedIn, generatedIn>>

NextTwin ==
    \/ TwinCall
    \/ TwinTick

SpecTwin == InitTwin /\ [][NextTwin]_vars

\* ------------------------------------------------------- search_resources
Queries == {"cat", "logo"}
HttpStatuses == {200, 404, 500}
Bodies == {"json", "text", "empty"}

InitSearch ==
    /\ cap = 1
    /\ clock = 1
    /\ file = Missing
    /\ GenIdle
    /\ TwinIdle
    /\ SearchIdle

\* search_resources(query, limit, page): url, headers, params; first print.
SearchStart ==
    /\ s_pc = "idle"
    /\ \E q \in Queries, l \in 1 .. MaxLimit, g \in 1 .. MaxPage :
           s_args' = [term |-> q, limit |-> l, page |-> g]
    /\ s_diag' = s_diag \cup {"searching"}
    /\ s_pc' = "get"
    /\ UNCHANGED <<genVars, twinVars, response, s_return, s_raised>>

\* requests.get raises (no connection, timeout): `response` is never bound.
GetTransportFailure ==
    /\ s_pc = "get"
    /\ s_pc' = "except"
    /\ UNCHANGED <<genVars, twinVars, s_args, response, s_return, s_raised, s_diag>>

\* requests.get returns a response.
GetResponse ==
    /\ s_pc = "get"
    /\ \E st \in HttpStatuses, b \in Bodies, n \in 0 .. MaxItems :
           /\ b # "json" => n = 0
           /\ response' = [bound |-> TRUE, status |-> st, body |-> b, items |-> n]
    /\ s_pc' = "raise_for_status"
    /\ UNCHANGED <<genVars, twinVars, s_args, s_return, s_raised, s_diag>>

\* response.raise_for_status(): HTTPError on a 4xx or 5xx status.
RaiseForStatus ==
    /\ s_pc = "raise_for_status"
    /\ s_pc' = IF response.status >= 400 THEN "except" ELSE "parse"
    /\ UNCHANGED <<genVars, twinVars, s_args, response, s_return, s_raised, s_diag>>

\* response.json(), data.get("data", []), print and return the resources.
ParseOk ==
    /\ s_pc = "parse"
    /\ response.body = "json"
    /\ s_return' = [i \in 1 .. response.items |-> i]
    /\ s_diag' = s_diag \cup {"found"}
    /\ s_pc' = "returned"
    /\ UNCHANGED <<genVars, twinVars, s_args, response, s_raised>>

\* response.json() fails with requests' JSONDecodeError, a RequestException.
ParseFailsCaught ==
    /\ s_pc = "parse"
    /\ response.body # "json"
    /\ s_pc' = "except"
    /\ UNCHANGED <<genVars, twinVars, s_args, response, s_return, s_raised, s_diag>>

\* response.json() fails with a plain ValueError (requests before 2.27).
ParseFailsEscapes ==
    /\ s_pc = "parse"
    /\ response.body # "json"
    /\ s_raised' = "ValueError"
    /\ s_pc' = "raised"
    /\ UNCHANGED <<genVars, twinVars, s_args, response, s_return, s_diag>>

\* except RequestException: print the error; `response.text` of a name that
\* was never bound raises UnboundLocalError out of the handler.
ExceptUnbound ==
    /\ s_pc = "except"
    /\ ~response.bound
    /\ s_diag' = s_diag \cup {"api_error"}
    /\ s_raised' = "UnboundLocalError"
    /\ s_pc' = "raised"
    /\ UNCHANGED <<genVars, twinVars, s_args, response, s_return>>

\* except RequestException: print the error and the response text; return [].
ExceptReturn ==
    /\ s_pc = "except"
    /\ response.bound
    /\ s_diag' = s_diag \cup {"api_error"}
                        \cup (IF response.body # "empty" THEN {"response_text"} ELSE {})
    /\ s_return' = <<>>
    /\ s_pc' = "returned"
    /\ UNCHANGED <<genVars, twinVars, s_args, response, s_raised>>

NextSearch ==
    \/ SearchStart
    \/ GetTransportFailure
    \/ GetResponse
    \/ RaiseForStatus
    \/ ParseOk
    \/ ParseFailsCaught
    \/ ParseFailsEscapes
    \/ ExceptUnbound
    \/ ExceptReturn

SpecSearch == InitSearch /\ [][NextSearch]_vars

\* ================================================================ claims
Min(a, b) == IF a <= b THEN a ELSE b
\* The count load_usage would report: a missing file counts as 0.
PersistedCount == IF file.kind = "record" THEN file.count ELSE 0
FromMissingSameMonth == start.file.kind = "missing" /\ clock = start.clock

\* C1: N sequential calls within one month, starting from a missing usage
\* file: the i-th call is allowed iff i <= cap, and once the N calls have
\* returned the persisted count is min(N, cap).
C1_SequentialCap ==
    FromMissingSameMonth =>
        /\ \A i \in 1 .. Len(results) : results[i] = (i <= cap)
        /\ pc[SeqProc] # "dump" =>
               /\ file.kind # "corrupt"
               /\ PersistedCount = Min(Len(results), cap)

\* More calls than the cap: the last was denied and the count stays at cap.
C1_Witness ==
    /\ FromMissingSameMonth
    /\ Len(results) > cap
    /\ cap >= 2
    /\ ~results[Len(results)]
    /\ file = StoredRecord([month |-> clock, count |-> cap])

\* C2: the external call is made only after the gate allowed and the
\* incremented record was written in the same attempt; a denied attempt
\* exits at once with no external call and the usage file as it was loaded.
C2_GateBeforeCall ==
    \A p \in Procs :
        /\ (called[p] \/ pc[p] \in {"generate", "save_image"}) =>
               /\ gate[p] = "allowed"
               /\ usage[p].count >= 1
               /\ usage[p].month = current_month[p]
               /\ file = StoredRecord(usage[p])
        /\ gate[p] = "denied" =>
               /\ ~called[p]
               /\ pc[p] = "done"
               /\ outcome[p] = "exit_quota"
               /\ file = loaded[p].file

\* An attempt was denied, and a later one (next month) made the call.
C2_Witness ==
    /\ called[SeqProc]
    /\ gate[SeqProc] = "allowed"
    /\ \E i \in 1 .. Len(results) : ~results[i]

\* C3: sequential calls, months changing freely, from a missing file or a
\* stored count in 0..cap: the persisted count stays within 0..cap.
C3_CountWithinCap ==
    file.kind = "record" => file.count \in 0 .. cap

\* An allowed call in a later month brought the count up to the cap.
C3_Witness ==
    /\ file.kind = "record"
    /\ file.count = cap
    /\ file.month # start.clock
    /\ Len(results) >= 1
    /\ results[Len(results)]

\* C4: a call that loads a record of another month, whatever its count, is
\* allowed and leaves {month: current month, count: 1}.
C4_NewMonthResets ==
    \A p \in Procs :
        ( /\ pc[p] \in {"import", "generate", "save_image", "done"}
          /\ loaded[p].file.kind = "record"
          /\ loaded[p].file.month # current_month[p] )
        => /\ gate[p] = "allowed"
           /\ file = StoredRecord([month |-> current_month[p], count |-> 1])

\* The stale record was at the cap.
C4_Witness ==
    \E p \in Procs :
        /\ gate[p] = "allowed"
        /\ loaded[p].file.kind = "record"
        /\ loaded[p].file.month # current_month[p]
        /\ loaded[p].file.count = cap
        /\ file.count = 1

FailureOf(p) ==
    CASE gate[p] = "denied" -> "QuotaExceeded"
      [] outcome[p] = "exit_dependency" -> "DependencyMissing"
      [] outcome[p] = "raised_generate" -> "TransportError"
      [] OTHER -> "none"

\* C8: each of QuotaExceeded, DependencyMissing and TransportError ends in
\* a diagnostic and sys.exit(1); none leaves as an unhandled exception.
C8_FailuresHandled ==
    \A p \in Procs :
        FailureOf(p) # "none" => outcome[p] \in {"exit_quota", "exit_dependency"}

\* C10: an admitted attempt that then fails leaves the incremented record in
\* place; the persisted count of a month is the number of attempts admitted
\* in it and at least the number of images generated in it.
C10_NoRollback ==
    /\ \A p \in Procs :
           ( /\ gate[p] = "allowed"
             /\ pc[p] = "done"
             /\ outcome[p] # "ok" )
           => /\ usage[p].count >= 1
              /\ file = StoredRecord(usage[p])
    /\ file.kind = "record" =>
           /\ file.count = admittedIn[file.month]
           /\ generatedIn[file.month] <= file.count

\* One image was generated, a later admitted attempt failed in the call.
C10_Witness ==
    /\ outcome[SeqProc] = "raised_generate"
    /\ file.kind = "record"
    /\ generatedIn[file.month] >= 1
    /\ generatedIn[file.month] < file.count
    /\ file.count = admittedIn[file.month]

\* ------------------------------------------------------ claims, SpecConc
Launched == Cardinality({p \in Procs : pc[p] # "idle"})
Admitted == Cardinality({p \in Procs : gate[p] = "allowed"})
\* Quota left in the current month when the processes start.
Remaining ==
    IF start.file.kind = "record" /\ start.file.month = start.clock
    THEN cap - start.file.count
    ELSE cap

\* C5: K interleaved callers admit at most K - 1 calls beyond the quota
\* that was left.
C5_OverAdmitBound ==
    Admitted > Remaining => Admitted - Remaining <= Launched - 1

\* All K callers read the same record with one unit left, and all pass.
C5_Witness ==
    /\ Remaining = 1
    /\ Admitted = NumProcs
    /\ \A p \in Procs : loaded[p].file = start.file

\* ------------------------------------------------------ claims, SpecTwin
\* C9: the calls on the missing file and on the file {current month, 0}
\* return the same results and leave the same record.
C9_MissingIsZeroRecord ==
    /\ results = resultsB
    /\ Len(results) >= 1 => file = fileB
    /\ Len(results) = 0 =>
           load_usage(file, start.clock).usage = load_usage(fileB, start.clock).usage

\* Both runs went through allowed and denied calls.
C9_Witness ==
    /\ Len(results) > cap
    /\ ~results[Len(results)]
    /\ start.file.kind = "missing"
    /\ fileB.count = cap

\* ---------------------------------------------------- claims, SpecSearch
\* The request failed: no response at all, or an HTTP error status.
RequestFailed == ~response.bound \/ response.status >= 400

\* C6: a failed request ends with a diagnostic and an empty return value,
\* never with an exception out of search_resources.
C6_SearchFailureHandled ==
    (s_pc \in {"returned", "raised"} /\ RequestFailed) =>
        /\ s_pc = "returned"
        /\ s_raised = "none"
        /\ s_return = <<>>
        /\ "api_error" \in s_diag

====
